---- MODULE Spec2Model ----
(***************************************************************************)
(* The headless collaborative document-operations engine of da-agent:      *)
(* backend/src/services/document-operations.js (DocumentOperations),       *)
(* backend/src/services/headless-cursor-plugin.js (yHeadlessCursorPlugin)  *)
(* and the routes of backend/src/routes/operations.js; and the chat route  *)
(* of backend/src/routes/chat.js with ClaudeService.streamChat.            *)
(*                                                                         *)
(* Scheduling.  The engine runs on one event loop.  A step of the model is *)
(* one macrotask (an HTTP request reaching an operation, a 'sync' event of *)
(* a provider, the firing of a sync timer) or the microtask continuation   *)
(* that a settled promise schedules.  Microtasks run before the next       *)
(* macrotask, which the guard NoMicrotask states.                          *)
(*                                                                         *)
(* Documents.  A document is a sequence of blocks; a block is a paragraph  *)
(* or a heading that holds at most one text node (the schema has no marks, *)
(* so adjacent text always merges).  Text is a sequence of UTF-16 code     *)
(* units.  Positions are ProseMirror's flat offsets: a block of text       *)
(* length n occupies n + 2 positions.                                      *)
(***************************************************************************)
EXTENDS Integers, Sequences, FiniteSets, TLC

(***************************************************************************)
(* Bounds of the model.                                                    *)
(***************************************************************************)
MaxSessions == 2   \* providers created in one run
MaxCalls    == 2   \* operation calls issued in one run of Spec
MaxEdits    == 2   \* operation calls issued in one run of SpecEdit
MaxLen      == 2   \* code units of text per block of a served document
MaxBlocks   == 2   \* blocks of a served document
MaxSearch   == 2   \* code units of a search text
MaxContent  == 2   \* content blocks of one response of the model

(***************************************************************************)
(* Code units.  "Idot" is U+0130, whose lower case is the two code units   *)
(* U+0069 U+0307 ("i", "dot"); "A" lowers to "a".                          *)
(***************************************************************************)
Chars == {"a", "A", "Idot"}

RECURSIVE StringsUpTo(_)
StringsUpTo(n) ==
  IF n = 0 THEN {<<>>}
  ELSE LET shorter == StringsUpTo(n - 1)
       IN  shorter \cup {Append(s, c) : s \in {t \in shorter : Len(t) = n - 1}, c \in Chars}

\* String.prototype.toLowerCase on one code unit
LowerUnit(c) ==
  CASE c = "A"    -> <<"a">>
    [] c = "Idot" -> <<"i", "dot">>
    [] OTHER      -> <<c>>

RECURSIVE toLowerCase(_)
toLowerCase(s) ==
  IF s = <<>> THEN <<>> ELSE LowerUnit(Head(s)) \o toLowerCase(Tail(s))

\* the offsets (0-based) at which t occurs in s
Occurrences(s, t) ==
  {i \in 0..(Len(s) - Len(t)) : SubSeq(s, i + 1, i + Len(t)) = t}

Min(S) == CHOOSE x \in S : \A y \in S : x <= y

\* String.prototype.indexOf
indexOf(s, t) ==
  IF Occurrences(s, t) = {} THEN 0 - 1 ELSE Min(Occurrences(s, t))

(***************************************************************************)
(* The structural document model (the schema of connect).                  *)
(***************************************************************************)
Paragraph(text) == [type |-> "paragraph", level |-> 0, text |-> text]
Heading(level, text) == [type |-> "heading", level |-> level, text |-> text]

nodeSize(b) == Len(b.text) + 2

RECURSIVE contentSize(_)
contentSize(doc) ==
  IF doc = <<>> THEN 0 ELSE nodeSize(Head(doc)) + contentSize(Tail(doc))

\* the position before block i (i = Len(doc) + 1: the end of the document)
blockStart(doc, i) == contentSize(SubSeq(doc, 1, i - 1))

InRange(doc, pos) == 0 <= pos /\ pos <= contentSize(doc)

(***************************************************************************)
(* doc.resolve(pos), for 0 <= pos <= contentSize(doc): depth 1 is a        *)
(* position inside the inline content of block idx at text offset off;     *)
(* depth 0 is the boundary before block idx (idx = Len(doc) + 1 at the     *)
(* end).  The callers check the range first: doc.resolve throws outside   *)
(* it, and the value here for such a position is never read by them.      *)
(***************************************************************************)
Inside(doc, i, pos) ==
  blockStart(doc, i) < pos /\ pos < blockStart(doc, i) + nodeSize(doc[i])

resolveIn(doc, pos, i) ==
  [depth |-> 1, idx |-> i, off |-> pos - blockStart(doc, i) - 1]

resolve(doc, pos) ==
  IF \E i \in 1..Len(doc) : Inside(doc, i, pos)
  THEN resolveIn(doc, pos, CHOOSE i \in 1..Len(doc) : Inside(doc, i, pos))
  ELSE [depth |-> 0,
        idx   |-> CHOOSE j \in 1..(Len(doc) + 1) :
                    \/ blockStart(doc, j) = pos
                    \/ ~InRange(doc, pos) /\ j = Len(doc) + 1,
        off   |-> 0]

(***************************************************************************)
(* Selections.  A TextSelection is a pair of positions; the AllSelection   *)
(* spans the whole document and is what a document without any block gets. *)
(***************************************************************************)
TextSelection(anchor, head) == [all |-> FALSE, anchor |-> anchor, head |-> head]
AllSelection(doc) == [all |-> TRUE, anchor |-> 0, head |-> contentSize(doc)]

Max2(a, b) == IF a >= b THEN a ELSE b
Min2(a, b) == IF a <= b THEN a ELSE b
selFrom(sel) == Min2(sel.anchor, sel.head)
selTo(sel) == Max2(sel.anchor, sel.head)

\* Selection.near of a position between blocks: the start of the block
\* after it, else the end of the block before it, else the AllSelection
nearAt(doc, pos, r) ==
  IF r.depth = 1 THEN TextSelection(pos, pos)
  ELSE IF r.idx <= Len(doc) THEN TextSelection(pos + 1, pos + 1)
  ELSE IF r.idx > 1 THEN TextSelection(pos - 1, pos - 1)
  ELSE AllSelection(doc)

near(doc, pos) == nearAt(doc, pos, resolve(doc, pos))

\* Selection.atStart, the selection of EditorState.create
atStart(doc) == near(doc, 0)

(***************************************************************************)
(* A replace step [from, to) -> newSize positions, and the mapping of a    *)
(* position through it (StepMap.map with the default association 1).       *)
(***************************************************************************)
mapPos(pos, from, oldSize, newSize) ==
  IF pos < from THEN pos
  ELSE IF pos <= from + oldSize
       THEN IF oldSize > 0 /\ pos = from THEN from ELSE from + newSize
       ELSE pos + newSize - oldSize

\* Selection.map: the selection of the state a transaction leaves
mapTextSelection(newDoc, anchor, head) ==
  IF resolve(newDoc, head).depth = 0 THEN near(newDoc, head)
  ELSE IF resolve(newDoc, anchor).depth = 1
       THEN TextSelection(anchor, head)
       ELSE TextSelection(head, head)

\* a dispatch that keeps the selection of the state before the transaction
mapSelectionStale(sel, tr) == sel

mapSelection(sel, tr) ==
  IF sel.all THEN AllSelection(tr.doc)
  ELSE mapTextSelection(tr.doc, mapPos(sel.anchor, tr.from, tr.oldSize, tr.newSize),
                        mapPos(sel.head, tr.from, tr.oldSize, tr.newSize))

\* a transaction's outcome: the new document and the step it was made by
Step(newDoc, oldDoc, from, to) ==
  [doc |-> newDoc, from |-> from, oldSize |-> to - from,
   newSize |-> contentSize(newDoc) - contentSize(oldDoc) + (to - from)]

Pre(b, k) == SubSeq(b.text, 1, k)
Post(b, k) == SubSeq(b.text, k + 1, Len(b.text))
Before(doc, i) == SubSeq(doc, 1, i - 1)
From(doc, i) == SubSeq(doc, i, Len(doc))

(***************************************************************************)
(* tr.replaceWith(from, to, schema.text(r)), 0 <= from <= to <= size.      *)
(* Inside one block the text between the offsets is replaced.  A range     *)
(* that leaves the block is fitted: the replacement joins the block of     *)
(* from (a new paragraph when from lies between blocks) with what follows  *)
(* to in the block of to, and everything between is dropped.               *)
(***************************************************************************)
fitted(doc, f, t, r) ==
  Before(doc, f.idx)
    \o <<[(IF f.depth = 1 THEN doc[f.idx] ELSE Paragraph(<<>>)) EXCEPT !.text =
            (IF f.depth = 1 THEN Pre(doc[f.idx], f.off) ELSE <<>>)
              \o r
              \o (IF t.depth = 1 THEN Post(doc[t.idx], t.off) ELSE <<>>)]>>
    \o (IF t.depth = 1 THEN From(doc, t.idx + 1) ELSE From(doc, t.idx))

replaceWith(doc, from, to, r) ==
  Step(fitted(doc, resolve(doc, from), resolve(doc, to), r), doc, from, to)

(***************************************************************************)
(* tr.delete(from, to) of the whole block idx.  The document must keep one *)
(* block (doc: block+), so deleting the only block leaves the empty        *)
(* paragraph the schema fills in.                                          *)
(***************************************************************************)
filled(doc) == IF doc = <<>> THEN <<Paragraph(<<>>)>> ELSE doc

\* a delete that leaves the document without a block
deleteRangeToNothing(doc, idx) ==
  Step(Before(doc, idx) \o From(doc, idx + 1), doc,
       blockStart(doc, idx), blockStart(doc, idx) + nodeSize(doc[idx]))

\* a delete that removes the first block, wherever the selection is
deleteRangeFirst(doc, idx) ==
  Step(filled(From(doc, 2)), doc, 0, nodeSize(doc[1]))

deleteRange(doc, idx) ==
  Step(filled(Before(doc, idx) \o From(doc, idx + 1)), doc,
       blockStart(doc, idx), blockStart(doc, idx) + nodeSize(doc[idx]))

(***************************************************************************)
(* tr.insert(pos, node) of a block node.  Between blocks the node is       *)
(* placed there.  Inside a block's text the block is split around the      *)
(* node, except at the end of the text, where the node follows the block.  *)
(***************************************************************************)
insertAt(doc, pos, node, p) ==
  IF p.depth = 0
  THEN Step(Before(doc, p.idx) \o <<node>> \o From(doc, p.idx), doc, pos, pos)
  ELSE IF p.off = Len(doc[p.idx].text)
       THEN Step(Before(doc, p.idx + 1) \o <<node>> \o From(doc, p.idx + 1),
                 doc, pos, pos + 1)
       ELSE Step(Before(doc, p.idx)
                   \o <<[doc[p.idx] EXCEPT !.text = Pre(doc[p.idx], p.off)], node,
                        [doc[p.idx] EXCEPT !.text = Post(doc[p.idx], p.off)]>>
                   \o From(doc, p.idx + 1),
                 doc, pos, pos)

insert(doc, pos, node) == insertAt(doc, pos, node, resolve(doc, pos))

(***************************************************************************)
(* Document identities, and the key connect and disconnect derive from one *)
(***************************************************************************)
Identity(collabUrl, docUrl) == [collabUrl |-> collabUrl, docUrl |-> docUrl]
IdA == Identity("ws://h", "d:e")
IdB == Identity("ws://h:d", "e")
IdC == Identity("ws://h", "e")
Identities == {IdA, IdB, IdC}
NoIdentity == Identity("", "")

key(id) == id.collabUrl \o ":" \o id.docUrl
Keys == {key(id) : id \in Identities}

Callers == {"c1", "c2"}
Sessions == 1..MaxSessions

(***************************************************************************)
(* The state.                                                              *)
(*   connections  this.connections: key -> session (0: no entry)           *)
(*   sess         every connection object built so far, with its provider, *)
(*                awareness, sync promise and timer, view, document and    *)
(*                selection                                                *)
(*   nSessions    how many providers were created                          *)
(*   call         per caller: where its operation stands, and the result   *)
(*                of its last operation (again: it repeated the one before *)
(*                it on the same session; overtaken: a disconnect for its  *)
(*                identity returned while it awaits the sync)              *)
(*                and the HTTP status of the answer (status)               *)
(*   nCalls       how many operations were issued                          *)
(*   remote       the document the collaboration endpoint holds per room   *)
(*   chat         the request of POST /api/chat and its streamChat: see    *)
(*                NoChat                                                   *)
(***************************************************************************)
VARIABLES connections, sess, nSessions, call, nCalls, remote, chat

vars == <<connections, sess, nSessions, call, nCalls, remote, chat>>
\* the state of the document operations
engine == <<connections, sess, nSessions, call, nCalls, remote>>

NoMarker == [depth |-> 0, idx |-> 0, off |-> 0]
\* the cursor field of the awareness, and how often it was written
NoCursor == [state |-> "unset", anchor |-> NoMarker, head |-> NoMarker, writes |-> 0]

NoSession ==
  [id |-> NoIdentity, provider |-> "none", synced |-> FALSE,
   timer |-> FALSE, promise |-> "none", user |-> FALSE, cursor |-> NoCursor,
   view |-> "none", doc |-> <<>>, sel |-> AllSelection(<<>>)]

NoArgs ==
  [op |-> "none", searchText |-> <<>>, replaceText |-> <<>>, text |-> <<>>,
   nodeType |-> <<>>]

NoResult ==
  [op |-> "none", threw |-> FALSE, success |-> FALSE, message |-> "", error |-> "",
   text |-> <<>>, from |-> 0, to |-> 0, session |-> 0]

\* a caller between calls, with the arguments and the result of its last call
\* the status of the route's answer: res.json(result), or the 500 of the
\* route's catch when the operation threw (0: no request answered yet)
statusOf(res) == IF res.op = "none" THEN 0 ELSE IF res.threw THEN 500 ELSE 200

Idle(args, res) ==
  [pc |-> "idle", id |-> NoIdentity, args |-> args, s |-> 0, res |-> res,
   again |-> FALSE, overtaken |-> FALSE, status |-> statusOf(res)]

\* POST /api/chat and streamChat:
\*   pc            where the request stands
\*   status        the HTTP status of an answer that is not a stream
\*   sent          the events written to the response: how many token and
\*                 status events before the first terminal event, and the
\*                 events from the first terminal event on
\*   ended         res.end() was called
\*   iteration     the loop counter of streamChat
\*   roles         the roles of conversationMessages, in order
\*   assistant     contentBlocks, the content of the last assistant turn
\*   stopReason    the stop reason of the last response
\*   next          the block the loop over contentBlocks has reached
\*   toolResults   the tool results collected in this iteration
\*   user          the content of the last turn of tool results
NoChat ==
  [pc |-> "idle", status |-> 0,
   sent |-> [tokens |-> 0, statuses |-> 0, tail |-> <<>>], ended |-> FALSE,
   iteration |-> 0, roles |-> <<>>, assistant |-> <<>>, stopReason |-> "none",
   next |-> 0, toolResults |-> <<>>, user |-> <<>>]

\* a continuation is queued: no macrotask runs before it
NoMicrotask == \A p \in Callers : call[p].pc \notin {"resolved", "rejected"}

(***************************************************************************)
(* The arguments of the operations.                                        *)
(***************************************************************************)
positionCursorArgs(searchText) ==
  [NoArgs EXCEPT !.op = "positionCursor", !.searchText = searchText]
deleteBlockArgs == [NoArgs EXCEPT !.op = "deleteBlock"]
insertAtCursorArgs(text, nodeType) ==
  [NoArgs EXCEPT !.op = "insertAtCursor", !.text = text, !.nodeType = nodeType]
replaceTextArgs(findText, replaceText) ==
  [NoArgs EXCEPT !.op = "replaceText", !.searchText = findText, !.replaceText = replaceText]
disconnectArgs == [NoArgs EXCEPT !.op = "disconnect"]

(***************************************************************************)
(* findText: the first text node, in document order, whose lower-cased     *)
(* text holds the lower-cased search text; the match is reported at the    *)
(* index found in the lower-cased text, with the length of the search text *)
(* as given.                                                               *)
(***************************************************************************)
\* the index of the search text in the text node of block i, -1 if none
indexIn(doc, i, searchText) ==
  IF doc[i].text = <<>> THEN 0 - 1
  ELSE indexOf(toLowerCase(doc[i].text), toLowerCase(searchText))

foundAt(foundPos, searchText) ==
  [found |-> TRUE, from |-> foundPos, to |-> foundPos + Len(searchText)]

foundIn(doc, i, searchText) ==
  foundAt(blockStart(doc, i) + 1 + indexIn(doc, i, searchText), searchText)

findText(doc, searchText) ==
  IF \A i \in 1..Len(doc) : indexIn(doc, i, searchText) < 0
  THEN [found |-> FALSE, from |-> 0, to |-> 0]
  ELSE foundIn(doc, Min({i \in 1..Len(doc) : indexIn(doc, i, searchText) >= 0}), searchText)

(***************************************************************************)
(* What the body of an operation does to a view: it throws, or it returns  *)
(* a result, having dispatched a transaction or not.                       *)
(***************************************************************************)
Throws(doc, sel, error) ==
  [threw |-> TRUE, error |-> error, dispatched |-> FALSE, doc |-> doc, sel |-> sel,
   res |-> NoResult]
Returns(doc, sel, dispatched, res) ==
  [threw |-> FALSE, error |-> "", dispatched |-> dispatched, doc |-> doc, sel |-> sel,
   res |-> res]

Result(op, success, message, text, from, to) ==
  [NoResult EXCEPT !.op = op, !.success = success, !.message = message,
                   !.text = text, !.from = from, !.to = to]

\* positionCursor that puts the cursor at the start (setCursor(view, 0))
\* when the text is not found
positionCursorOrStart(doc, sel, searchText, pos) ==
  IF pos.found
  THEN Returns(doc, TextSelection(pos.from, pos.to), TRUE,
               Result("positionCursor", TRUE, "Found", searchText, pos.from, pos.to))
  ELSE Returns(doc, atStart(doc), TRUE,
               Result("positionCursor", FALSE, "not found", searchText, 0, 0))

positionCursorAt(doc, sel, searchText, pos) ==
  IF pos.found
  THEN IF ~InRange(doc, pos.from) \/ ~InRange(doc, pos.to)
       THEN Throws(doc, sel, "Position out of range")
       ELSE Returns(doc, TextSelection(pos.from, pos.to), TRUE,
                    Result("positionCursor", TRUE, "Found", searchText, pos.from, pos.to))
  ELSE Returns(doc, sel, FALSE,
               Result("positionCursor", FALSE, "not found", searchText, 0, 0))

positionCursor(doc, sel, searchText) ==
  positionCursorAt(doc, sel, searchText, findText(doc, searchText))

\* the state a dispatched transaction leaves, and the result returned
Dispatched(sel, tr, res) == Returns(tr.doc, mapSelection(sel, tr), TRUE, res)

\* a deleteBlock that refuses to delete the last block
deleteBlockAtUnlessLast(doc, sel, from) ==
  IF from.depth = 0
  THEN Throws(doc, sel, "There is no position before the top-level node")
  ELSE IF Len(doc) = 1
       THEN Returns(doc, sel, FALSE,
                    Result("deleteBlock", FALSE, "No block to delete", <<>>, 0, 0))
       ELSE Dispatched(sel, deleteRange(doc, from.idx),
                       Result("deleteBlock", TRUE, "Block deleted successfully", <<>>, 0, 0))

\* a deleteBlock that answers success when the selection is in no block
deleteBlockAtOrNothing(doc, sel, from) ==
  IF from.depth = 0
  THEN Returns(doc, sel, FALSE,
               Result("deleteBlock", TRUE, "Block deleted successfully", <<>>, 0, 0))
  ELSE Dispatched(sel, deleteRange(doc, from.idx),
                  Result("deleteBlock", TRUE, "Block deleted successfully", <<>>, 0, 0))

deleteBlockAt(doc, sel, from) ==
  IF from.depth = 0
  THEN Throws(doc, sel, "There is no position before the top-level node")
  ELSE Dispatched(sel, deleteRange(doc, from.idx),
                  Result("deleteBlock", TRUE, "Block deleted successfully", <<>>, 0, 0))

deleteBlock(doc, sel) == deleteBlockAt(doc, sel, resolve(doc, selFrom(sel)))

\* Number.parseInt of a string given as its code units
Digits == <<"0", "1", "2", "3", "4", "5", "6", "7", "8", "9">>
IsDigit(c) == \E d \in 1..Len(Digits) : Digits[d] = c
DigitValue(c) == (CHOOSE d \in 1..Len(Digits) : Digits[d] = c) - 1
NaN == -1

RECURSIVE parseDigits(_, _)
parseDigits(s, acc) ==
  IF s = <<>> \/ ~IsDigit(Head(s)) THEN acc
  ELSE parseDigits(Tail(s), 10 * acc + DigitValue(Head(s)))

parseInt(s) == IF s = <<>> \/ ~IsDigit(Head(s)) THEN NaN ELSE parseDigits(s, 0)

\* a node type is the word "paragraph" or "heading", or any other code
\* units, followed by further code units
newNode(text, nodeType) ==
  IF nodeType = <<"paragraph">> THEN Paragraph(text)
  ELSE IF nodeType # <<>> /\ Head(nodeType) = "heading"
       THEN Heading(parseInt(Tail(nodeType)), text)
       ELSE Paragraph(text)

insertAtCursor(doc, sel, text, nodeType) ==
  IF text = <<>>
  THEN Throws(doc, sel, "Empty text nodes are not allowed")
  ELSE Dispatched(sel, insert(doc, selTo(sel), newNode(text, nodeType)),
                  Result("insertAtCursor", TRUE, "inserted successfully", nodeType, 0, 0))

replaceTextAt(doc, sel, findStr, replaceStr, pos) ==
  IF pos.found
  THEN IF replaceStr = <<>>
       THEN Throws(doc, sel, "Empty text nodes are not allowed")
       ELSE IF ~InRange(doc, pos.from) \/ ~InRange(doc, pos.to)
            THEN Throws(doc, sel, "Position out of range")
            ELSE Dispatched(sel, replaceWith(doc, pos.from, pos.to, replaceStr),
                            Result("replaceText", TRUE, "Text replaced successfully",
                                   <<>>, 0, 0))
  ELSE Returns(doc, sel, FALSE,
               Result("replaceText", FALSE, "not found", findStr, 0, 0))

replaceText(doc, sel, findStr, replaceStr) ==
  replaceTextAt(doc, sel, findStr, replaceStr, findText(doc, findStr))

\* the body of an operation, after its connect has returned
body(doc, sel, args) ==
  CASE args.op = "positionCursor" -> positionCursor(doc, sel, args.searchText)
    [] args.op = "deleteBlock"    -> deleteBlock(doc, sel)
    [] args.op = "insertAtCursor" -> insertAtCursor(doc, sel, args.text, args.nodeType)
    [] args.op = "replaceText"    -> replaceText(doc, sel, args.searchText, args.replaceText)

\* the catch of an operation: an exception becomes a failure result
catch(op, error) == [Result(op, FALSE, "Error", <<>>, 0, 0) EXCEPT !.error = error]

(***************************************************************************)
(* updateCursorInfo, the cursor plugin's view update: nothing for the      *)
(* AllSelection; else the selection's ends become structure-relative       *)
(* markers, written to the awareness when none is published or one differs *)
(***************************************************************************)
\* awareness.setLocalStateField('cursor', { anchor, head })
setCursorField(cursor, anchor, head) ==
  [state |-> "set", anchor |-> anchor, head |-> head, writes |-> cursor.writes + 1]

\* a view update that writes the cursor field whether it differs or not
publishAlways(cursor, anchor, head) == setCursorField(cursor, anchor, head)

\* a view update that writes the cursor field only when none is published
publishFirst(cursor, anchor, head) ==
  IF cursor.state # "set" THEN setCursorField(cursor, anchor, head) ELSE cursor

publish(cursor, anchor, head) ==
  IF cursor.state # "set" \/ cursor.anchor # anchor \/ cursor.head # head
  THEN setCursorField(cursor, anchor, head)
  ELSE cursor

\* a view update that publishes the markers of every selection
updateCursorInfoOfAny(cursor, doc, sel) ==
  publish(cursor, resolve(doc, sel.anchor), resolve(doc, sel.head))

updateCursorInfo(cursor, doc, sel) ==
  IF sel.all THEN cursor
  ELSE publish(cursor, resolve(doc, sel.anchor), resolve(doc, sel.head))

\* a session whose awareness carries no user record
connectingUnnamed(id, synced) ==
  [NoSession EXCEPT !.id = id, !.provider = "alive",
                    !.synced = synced,
                    !.timer = ~synced,
                    !.promise = IF synced THEN "resolved" ELSE "pending"]

\* the session of a connect up to its await: the provider is created, the
\* user record is set on its awareness, the timer is armed unless the
\* provider is synced
connecting(id, synced) ==
  [NoSession EXCEPT !.id = id, !.provider = "alive", !.user = TRUE,
                    !.synced = synced,
                    !.timer = ~synced,
                    !.promise = IF synced THEN "resolved" ELSE "pending"]

\* connect without the await of the sync promise: the caller goes on at once
CreateNoAwait(p, id, args, synced) ==
  /\ call[p].pc = "idle"
  /\ NoMicrotask
  /\ args.op \notin {"none", "disconnect"}
  /\ nSessions < MaxSessions
  /\ nCalls' = nCalls + 1
  /\ nSessions' = nSessions + 1
  /\ sess' = [sess EXCEPT ![nSessions + 1] =
                connecting(id, synced)]
  /\ call' = [call EXCEPT ![p] =
                [pc |-> "resolved", id |-> id, args |-> args, s |-> nSessions + 1,
                 res |-> NoResult, again |-> FALSE, overtaken |-> FALSE,
                 status |-> 0]]
  /\ UNCHANGED <<connections, remote>>

\* the session connect builds, and the caller awaiting its sync
Create(p, id, args, synced) ==
  /\ call[p].pc = "idle"
  /\ NoMicrotask
  /\ args.op \notin {"none", "disconnect"}
  /\ nSessions < MaxSessions
  /\ nCalls' = nCalls + 1
  /\ nSessions' = nSessions + 1
  /\ sess' = [sess EXCEPT ![nSessions + 1] =
                connecting(id, synced)]
  /\ call' = [call EXCEPT ![p] =
                [pc |-> IF synced THEN "resolved" ELSE "awaitSync",
                 id |-> id, args |-> args, s |-> nSessions + 1, res |-> NoResult,
                 again |-> FALSE, overtaken |-> FALSE, status |-> 0]]
  /\ UNCHANGED <<connections, remote>>

(***************************************************************************)
(* An operation whose connect finds the session cached (connect returns at *)
(* once; the body runs as the next microtask, before any other macrotask). *)
(***************************************************************************)
\* a dispatch that is not applied to the view before the operation returns
DispatchLater(sn, out) == sn

Dispatch(sn, out) ==
  IF out.dispatched
  THEN [sn EXCEPT !.doc = out.doc, !.sel = out.sel,
                  !.cursor = updateCursorInfo(sn.cursor, out.doc, out.sel)]
  ELSE sn

\* an operation without its catch: the exception reaches the caller
tryRethrow(op, out) ==
  IF out.threw THEN [NoResult EXCEPT !.op = op, !.threw = TRUE] ELSE out.res

\* the try and catch around the body
tryCatch(op, out) == IF out.threw THEN catch(op, out.error) ELSE out.res

Outcome(args, sn, s, out) ==
  [sn  |-> Dispatch(sn, out),
   dispatched |-> out.dispatched,
   res |-> [tryCatch(args.op, out) EXCEPT !.session = s]]

\* the call repeats the caller's last call, which answered success from the
\* same session (kept with the result, for the properties)
Again(p, args, s) ==
  /\ call[p].pc = "idle" /\ call[p].args = args
  /\ call[p].res.success /\ call[p].res.session = s

\* the binding writes a dispatched document through to the room
Settle(p, args, s, id, o) ==
  /\ sess' = [sess EXCEPT ![s] = o.sn]
  /\ remote' = [remote EXCEPT ![id] = IF o.dispatched THEN o.sn.doc ELSE @]
  /\ call' = [call EXCEPT ![p] = [Idle(args, o.res) EXCEPT !.again = Again(p, args, s)]]

Operate(p, args, s, sn) ==
  Settle(p, args, s, sn.id, Outcome(args, sn, s, body(sn.doc, sn.sel, args)))

\* connect without its cache check: a session is built although one is cached
CallCachedAnew(p, id, args) ==
  /\ connections[key(id)] # 0
  /\ Create(p, id, args, FALSE)

CallCached(p, id, args) ==
  /\ call[p].pc = "idle"
  /\ NoMicrotask
  /\ args.op \notin {"none", "disconnect"}
  /\ connections[key(id)] # 0
  /\ nCalls' = nCalls + 1
  /\ Operate(p, args, connections[key(id)], sess[connections[key(id)]])
  /\ UNCHANGED <<connections, nSessions>>

(***************************************************************************)
(* An operation whose connect finds no session cached: connect creates the *)
(* document and the provider, registers the agent on the awareness, arms   *)
(* the timer and awaits the sync.                                          *)
(***************************************************************************)
CallConnect(p, id, args, synced) ==
  /\ connections[key(id)] = 0
  /\ Create(p, id, args, synced)

\* who awaits the sync promise of session s
Awaiting(s) == {p \in Callers : call[p].pc = "awaitSync" /\ call[p].s = s}

(***************************************************************************)
(* The provider of s emits 'sync' (it does when its synced flag changes).  *)
(* The listener of connect clears the timer and resolves the promise when  *)
(* isSynced holds.  Once the promise is resolved the listener changes      *)
(* nothing any more and the events are left out; a provider that was       *)
(* synced when connect read the flag has no listener.                      *)
(***************************************************************************)
Sync(s, isSynced) ==
  /\ NoMicrotask
  /\ sess[s].provider = "alive"
  /\ sess[s].promise \in {"pending", "rejected"}
  /\ sess[s].synced # isSynced
  /\ IF isSynced
     THEN /\ sess' = [sess EXCEPT ![s].synced = TRUE, ![s].timer = FALSE,
                                  ![s].promise = IF @ = "pending" THEN "resolved" ELSE @]
          /\ call' = [p \in Callers |->
                        IF p \in Awaiting(s) /\ sess[s].promise = "pending"
                        THEN [call[p] EXCEPT !.pc = "resolved"] ELSE call[p]]
     ELSE /\ sess' = [sess EXCEPT ![s].synced = isSynced]
          /\ call' = call
  /\ UNCHANGED <<connections, nSessions, nCalls, remote>>

\* a timer whose callback does not reject the promise
SyncTimeoutUnheard(s) ==
  /\ NoMicrotask
  /\ sess[s].timer
  /\ sess' = [sess EXCEPT ![s].timer = FALSE]
  /\ UNCHANGED <<connections, nSessions, call, nCalls, remote>>

\* the timer of s fires
SyncTimeout(s) ==
  /\ NoMicrotask
  /\ sess[s].timer
  /\ sess' = [sess EXCEPT ![s].timer = FALSE,
                          ![s].promise = IF @ = "pending" THEN "rejected" ELSE @]
  /\ call' = [p \in Callers |->
                IF p \in Awaiting(s) /\ sess[s].promise = "pending"
                THEN [call[p] EXCEPT !.pc = "rejected"] ELSE call[p]]
  /\ UNCHANGED <<connections, nSessions, nCalls, remote>>

(***************************************************************************)
(* connect after the sync: the document is read from the replicated type,  *)
(* the view is created, the connection is stored under the key and         *)
(* returned; the body of the operation follows.                            *)
(***************************************************************************)
view(sn, doc) == [sn EXCEPT !.view = "alive", !.doc = doc, !.sel = atStart(doc)]

Connected(p) ==
  /\ call[p].pc = "resolved"
  /\ connections' = [connections EXCEPT ![key(call[p].id)] = call[p].s]
  /\ Operate(p, call[p].args, call[p].s, view(sess[call[p].s], remote[call[p].id]))
  /\ UNCHANGED <<nSessions, nCalls>>

\* connect rejected with 'Sync timeout': the operation's catch answers
Failed(p) ==
  /\ call[p].pc = "rejected"
  /\ call' = [call EXCEPT ![p] =
                Idle(call[p].args,
                     [catch(call[p].args.op, "Sync timeout") EXCEPT !.session = call[p].s])]
  /\ UNCHANGED <<connections, sess, nSessions, nCalls, remote>>

(***************************************************************************)
(* The /disconnect route and disconnect: the view is destroyed (the cursor *)
(* plugin publishes a null cursor), then the provider, and the entry is    *)
(* removed; nothing happens when the key has no entry.                     *)
(***************************************************************************)
\* view.destroy(): the cursor plugin's destroy sets the cursor field to null;
\* setLocalStateField writes nothing once the awareness has no local state
destroyView(sn) ==
  [sn EXCEPT !.view = "destroyed",
             !.cursor = IF sn.provider = "alive"
                        THEN [NoCursor EXCEPT !.state = "null", !.writes = sn.cursor.writes + 1]
                        ELSE @]

\* provider.destroy(): the connection is closed and the local awareness
\* state is removed
destroyProvider(sn) == [sn EXCEPT !.provider = "destroyed", !.user = FALSE]

\* a disconnect that destroys the provider first and the view second
destroyProviderFirst(sn) == destroyView(destroyProvider(sn))

destroy(sn) == destroyProvider(destroyView(sn))

\* the call of q as a disconnect for id leaves it: a connect for id that
\* awaits its sync is marked as issued before that disconnect (kept for the
\* properties)
Overtaken(q, id) ==
  IF call[q].pc = "awaitSync" /\ call[q].id = id
  THEN [call[q] EXCEPT !.overtaken = TRUE]
  ELSE call[q]

\* a disconnect that destroys the session and leaves its entry in the cache
DisconnectKeepingEntry(p, id) ==
  /\ call[p].pc = "idle"
  /\ NoMicrotask
  /\ nCalls' = nCalls + 1
  /\ IF connections[key(id)] # 0
     THEN sess' = [sess EXCEPT ![connections[key(id)]] = destroy(sess[connections[key(id)]])]
     ELSE UNCHANGED sess
  /\ call' = [q \in Callers |->
                IF q = p
                THEN Idle(disconnectArgs,
                          [NoResult EXCEPT !.op = "disconnect", !.success = TRUE,
                                           !.message = "Disconnected",
                                           !.session = connections[key(id)]])
                ELSE Overtaken(q, id)]
  /\ UNCHANGED <<connections, nSessions, remote>>

Disconnect(p, id) ==
  /\ call[p].pc = "idle"
  /\ NoMicrotask
  /\ nCalls' = nCalls + 1
  /\ LET s == connections[key(id)]
     IN  IF s # 0
         THEN /\ sess' = [sess EXCEPT ![s] = destroy(sess[s])]
              /\ connections' = [connections EXCEPT ![key(id)] = 0]
         ELSE UNCHANGED <<sess, connections>>
  /\ call' = [q \in Callers |->
                IF q = p
                THEN Idle(disconnectArgs,
                          [NoResult EXCEPT !.op = "disconnect", !.success = TRUE,
                                           !.message = "Disconnected",
                                           !.session = connections[key(id)]])
                ELSE Overtaken(q, id)]
  /\ UNCHANGED <<nSessions, remote>>

(***************************************************************************)
(* Specifications.  Spec: two callers, three identities (two of them with  *)
(* the same key), small documents.  SpecEdit: one caller and one identity, *)
(* every document and every search text within the bounds.                 *)
(***************************************************************************)
Start ==
  /\ connections = [k \in Keys |-> 0]
  /\ sess = [s \in Sessions |-> NoSession]
  /\ nSessions = 0
  /\ call = [p \in Callers |-> Idle(NoArgs, NoResult)]
  /\ nCalls = 0
  /\ chat = NoChat

Step1(callers, ids, argsSet, maxCalls) ==
  /\ UNCHANGED chat
  /\ \/ \E p \in callers, id \in ids, args \in argsSet :
           nCalls < maxCalls /\ CallCached(p, id, args)
     \/ \E p \in callers, id \in ids, args \in argsSet, synced \in BOOLEAN :
           nCalls < maxCalls /\ CallConnect(p, id, args, synced)
     \/ \E s \in Sessions, isSynced \in BOOLEAN : Sync(s, isSynced)
     \/ \E s \in Sessions : SyncTimeout(s)
     \/ \E p \in callers : Connected(p)
     \/ \E p \in callers : Failed(p)
     \/ \E p \in callers, id \in ids : nCalls < maxCalls /\ Disconnect(p, id)

Heading2 == <<"heading", "2">>

\* the rooms of Spec: two paragraphs, no block yet, one paragraph
Served(id) ==
  CASE id = IdA -> <<Paragraph(<<"A", "a">>), Paragraph(<<"a">>)>>
    [] id = IdB -> <<>>
    [] id = IdC -> <<Paragraph(<<"a">>)>>
SmallArgs ==
  {positionCursorArgs(<<"a">>), replaceTextArgs(<<"a">>, <<"Idot">>),
   insertAtCursorArgs(<<"a">>, Heading2), deleteBlockArgs}

Init == Start /\ remote = [id \in Identities |-> Served(id)]
Next == Step1(Callers, Identities, SmallArgs, MaxCalls)
Spec == Init /\ [][Next]_vars

Texts == StringsUpTo(MaxLen)
Docs == UNION {[1..n -> {Paragraph(t) : t \in Texts}] : n \in 0..MaxBlocks}
SearchTexts == StringsUpTo(MaxSearch)
NodeTypes == {<<"paragraph">>, Heading2, <<"heading", "7">>, <<"heading">>, <<"t">>}
EditArgs ==
  {positionCursorArgs(t) : t \in SearchTexts}
    \cup {replaceTextArgs(t, r) : t \in SearchTexts, r \in {<<>>, <<"a">>}}
    \cup {insertAtCursorArgs(t, n) : t \in {<<>>, <<"a">>}, n \in NodeTypes}
    \cup {deleteBlockArgs}

InitEdit ==
  Start /\ \E d \in Docs : remote = [id \in Identities |-> IF id = IdC THEN d ELSE <<>>]
NextEdit == Step1({"c1"}, {IdC}, EditArgs, MaxEdits)
SpecEdit == InitEdit /\ [][NextEdit]_vars

\* SpecShift: one caller and one identity on a paragraph in which two code
\* units whose lower case is longer precede the text searched for
ShiftDoc == <<Paragraph(<<"Idot", "Idot", "b", "a">>)>>
ShiftArgs ==
  {replaceTextArgs(<<"b">>, <<"c">>), positionCursorArgs(<<"c">>),
   positionCursorArgs(<<"b">>), insertAtCursorArgs(<<"c">>, Heading2), deleteBlockArgs}

InitShift ==
  Start /\ remote = [id \in Identities |-> IF id = IdC THEN ShiftDoc ELSE <<>>]
NextShift == Step1({"c1"}, {IdC}, ShiftArgs, MaxEdits)
SpecShift == InitShift /\ [][NextShift]_vars

\* SpecScenario: one caller and one identity; the caller positions the cursor
\* on a text, then replaces that text, then inserts a heading; the documents
\* are the paragraphs in which the text occurs once
ScenarioFind == <<"b">>
ScenarioTexts == {<<>>, <<"a">>, <<"b">>, <<"a", "b">>, <<"b", "a">>, <<"a", "a">>}
ScenarioDocs ==
  {d \in UNION {[1..n -> {Paragraph(t) : t \in ScenarioTexts}] : n \in 1..MaxBlocks} :
     Cardinality({i \in 1..Len(d) : Occurrences(d[i].text, ScenarioFind) # {}}) = 1}
ScenarioArgs(last) ==
  CASE last.op = "positionCursor" -> {replaceTextArgs(last.searchText, <<"c">>)}
    [] last.op = "replaceText"    -> {insertAtCursorArgs(<<"a">>, Heading2)}
    [] OTHER                      -> {positionCursorArgs(ScenarioFind)}

MaxSteps == 3   \* operation calls issued in one run of SpecScenario

InitScenario ==
  Start /\ \E d \in ScenarioDocs :
             remote = [id \in Identities |-> IF id = IdC THEN d ELSE <<>>]
NextScenario == Step1({"c1"}, {IdC}, ScenarioArgs(call["c1"].args), MaxSteps)
SpecScenario == InitScenario /\ [][NextScenario]_vars

\* SpecLive: Spec with the scheduling of the event loop: a timer that is
\* armed fires, and the continuation of a settled promise runs.  Whether
\* and when the provider syncs is left open.
\* (for Connected the weak fairness is written with its enabling condition,
\* the resolved await, in place of ENABLED)
Scheduling ==
  /\ \A s \in Sessions : WF_engine(SyncTimeout(s))
  /\ \A p \in Callers : WF_engine(Failed(p))
  /\ \A p \in Callers :
       <>[](call[p].pc = "resolved") => []<><<Connected(p)>>_vars
SpecLive == Init /\ [][Next]_vars /\ Scheduling

\* SpecTeardown: two callers on one identity, three calls, so that an
\* operation can follow a disconnect that followed an operation
TeardownArgs == {positionCursorArgs(<<"a">>), insertAtCursorArgs(<<"a">>, Heading2)}
NextTeardown == Step1(Callers, {IdC}, TeardownArgs, MaxSteps)
SpecTeardown == Init /\ [][NextTeardown]_vars

(***************************************************************************)
(* The routes of /api/operations.  A request body gives each parameter or  *)
(* leaves it out; a route answers 400 when a parameter it requires is      *)
(* falsy (left out, or the empty string), and calls the engine otherwise.  *)
(***************************************************************************)
Routes == {"position-cursor", "delete-block", "insert-at-cursor", "replace-text",
           "disconnect"}

Given(value) == [given |-> TRUE, value |-> value]
NoUrl == [given |-> FALSE, value |-> ""]
NoText == [given |-> FALSE, value |-> <<>>]

\* !x of a URL parameter and of a text parameter
noUrl(x) == ~x.given \/ x.value = ""
noText(x) == ~x.given \/ x.value = <<>>

\* the bodies sent to a route: each parameter the route reads is left out,
\* empty or given; the others are left out
Texts3 == {NoText, Given(<<>>), Given(<<"a">>)}
Reads(route, f) ==
  \/ f = "text" /\ route \in {"position-cursor", "insert-at-cursor"}
  \/ f \in {"find", "replace"} /\ route = "replace-text"
  \/ f = "nodeType" /\ route = "insert-at-cursor"
Bodies(route) ==
  [docUrl    : {NoUrl, Given(""), Given(IdC.docUrl)},
   collabUrl : {NoUrl, Given(""), Given(IdC.collabUrl)},
   text      : IF Reads(route, "text") THEN Texts3 ELSE {NoText},
   find      : IF Reads(route, "find") THEN Texts3 ELSE {NoText},
   replace   : IF Reads(route, "replace") THEN Texts3 ELSE {NoText},
   nodeType  : IF Reads(route, "nodeType") THEN {NoText, Given(Heading2)} ELSE {NoText}]

\* a route that checks the two URLs only
rejectsUrls(route, req) == noUrl(req.docUrl) \/ noUrl(req.collabUrl)

\* the check at the head of each route
rejects(route, req) ==
  \/ noUrl(req.docUrl)
  \/ noUrl(req.collabUrl)
  \/ route \in {"position-cursor", "insert-at-cursor"} /\ noText(req.text)
  \/ route = "replace-text" /\ (noText(req.find) \/ noText(req.replace))

\* res.status(400).json({ success: false, message: 'Missing required ...' })
Rejected ==
  [Idle(NoArgs, [NoResult EXCEPT !.message = "Missing required parameters"])
     EXCEPT !.status = 400]

\* the arguments a route passes to the engine (nodeType || 'paragraph')
argsOf(route, req) ==
  CASE route = "position-cursor"  -> positionCursorArgs(req.text.value)
    [] route = "delete-block"     -> deleteBlockArgs
    [] route = "insert-at-cursor" ->
         insertAtCursorArgs(req.text.value,
                            IF noText(req.nodeType) THEN <<"paragraph">>
                            ELSE req.nodeType.value)
    [] route = "replace-text"     -> replaceTextArgs(req.find.value, req.replace.value)
    [] route = "disconnect"       -> disconnectArgs

Invoke(p, id, args) ==
  IF args.op = "disconnect"
  THEN Disconnect(p, id)
  ELSE \/ CallCached(p, id, args)
       \/ \E synced \in BOOLEAN : CallConnect(p, id, args, synced)

Request(p, route, req) ==
  IF rejects(route, req)
  THEN /\ call[p].pc = "idle"
       /\ NoMicrotask
       /\ nCalls' = nCalls + 1
       /\ call' = [call EXCEPT ![p] = Rejected]
       /\ UNCHANGED <<connections, sess, nSessions, remote>>
  ELSE Invoke(p, Identity(req.collabUrl.value, req.docUrl.value), argsOf(route, req))

\* SpecRoutes: one client of the routes and every request body
NextRoutes ==
  /\ UNCHANGED chat
  /\ \/ \E route \in Routes : \E req \in Bodies(route) :
           nCalls < MaxEdits /\ Request("c1", route, req)
     \/ \E s \in Sessions, isSynced \in BOOLEAN : Sync(s, isSynced)
     \/ \E s \in Sessions : SyncTimeout(s)
     \/ Connected("c1")
     \/ Failed("c1")
SpecRoutes == Init /\ [][NextRoutes]_vars

(***************************************************************************)
(* POST /api/chat (routes/chat.js) and ClaudeService.streamChat            *)
(* (services/claude.js).  A step is one await of the route or of the loop: *)
(* the initialisation of the tools, one call of the model with its stream, *)
(* one tool call.  What the model answers and whether a call throws is     *)
(* chosen by the step.                                                     *)
(***************************************************************************)
maxIterations == 10

\* a content block; the id of a block is its index in the response
Block(type, id) == [type |-> type, id |-> id]
content(kinds) == [i \in 1..Len(kinds) |-> Block(kinds[i], i)]

\* the responses of the model: the kinds of its content blocks, the stop
\* reason of its message_delta ("none": it has none), and whether the call
\* or the stream throws (after the blocks)
Contents == UNION {[1..n -> {"text", "tool_use"}] : n \in 0..MaxContent}
StopReasons == {"end_turn", "tool_use", "none"}
Responses == [kinds : Contents, stopReason : StopReasons, broken : BOOLEAN]

\* sendEvent(type, data): res.write of one event
sendEvent(sent, type) ==
  IF sent.tail # <<>> \/ type \in {"complete", "error"}
  THEN [sent EXCEPT !.tail = Append(@, type)]
  ELSE IF type = "token" THEN [sent EXCEPT !.tokens = @ + 1]
       ELSE [sent EXCEPT !.statuses = @ + 1]

\* the events of a stream: onStatus at the start of a tool_use block,
\* onToken for the text delta of a text block
RECURSIVE streamed(_, _)
streamed(sent, kinds) ==
  IF kinds = <<>> THEN sent
  ELSE streamed(sendEvent(sent, IF Head(kinds) = "tool_use" THEN "status" ELSE "token"),
                Tail(kinds))

\* a catch of the route that ends the response without an event
failedSilently(c) == [c EXCEPT !.ended = TRUE, !.pc = "done"]

\* the catch of the route, and res.end()
failed(c) ==
  [c EXCEPT !.sent = sendEvent(@, "error"), !.ended = TRUE, !.pc = "done"]

\* sendEvent('complete', ...) after streamChat has returned, and res.end()
completed(c) ==
  [c EXCEPT !.sent = sendEvent(@, "complete"), !.ended = TRUE, !.pc = "done"]

\* the request arrives: 400 without a message, else the headers of the
\* event stream are set
ChatRequest(message) ==
  /\ chat.pc = "idle"
  /\ chat' = IF message THEN [chat EXCEPT !.pc = "init"]
             ELSE [chat EXCEPT !.pc = "done", !.status = 400]

\* mcpService.initialize and getTools, which may throw; streamChat then
\* starts the conversation with the user's message
Initialize(ok) ==
  /\ chat.pc = "init"
  /\ chat' = IF ok THEN [chat EXCEPT !.pc = "loop", !.roles = <<"user">>]
             ELSE failed(chat)

\* a loop that tests the counter with <=
continuesOnceMore(iteration) == iteration <= maxIterations

\* while (iteration < maxIterations)
continues(iteration) == iteration < maxIterations

\* the state after a stream has ended: the assistant turn is pushed, and
\* the loop breaks unless the stop reason is tool_use
answered(c, resp) ==
  [c EXCEPT !.assistant = content(resp.kinds),
            !.roles = Append(@, "assistant"),
            !.stopReason = resp.stopReason,
            !.toolResults = <<>>,
            !.next = 1,
            !.pc = IF resp.stopReason # "tool_use" THEN "exit" ELSE "tools"]

\* one iteration up to the end of its stream; an exception of the call or
\* of the stream leaves streamChat and reaches the catch of the route
ModelCall(resp) ==
  /\ chat.pc = "loop"
  /\ continues(chat.iteration)
  /\ chat' = IF resp.broken
             THEN failed([chat EXCEPT !.iteration = @ + 1,
                                      !.sent = streamed(@, resp.kinds)])
             ELSE answered([chat EXCEPT !.iteration = @ + 1,
                                        !.sent = streamed(@, resp.kinds)], resp)

\* the loop condition fails
LoopEnd ==
  /\ chat.pc = "loop"
  /\ ~continues(chat.iteration)
  /\ chat' = [chat EXCEPT !.pc = "exit"]

\* the tool result pushed for a tool_use block
toolResult(block, outcome) ==
  [tool_use_id |-> block.id, is_error |-> (outcome = "throws")]

\* a tool call whose exception is not caught by the loop
ToolCallRethrown(outcome) ==
  /\ chat.pc = "tools"
  /\ chat.next <= Len(chat.assistant)
  /\ chat.assistant[chat.next].type = "tool_use"
  /\ chat' = IF outcome = "throws"
             THEN failed([chat EXCEPT !.sent = sendEvent(@, "status")])
             ELSE [chat EXCEPT !.sent = sendEvent(@, "status"),
                               !.toolResults =
                                  Append(@, toolResult(chat.assistant[chat.next], outcome)),
                               !.next = @ + 1]

\* the loop over contentBlocks at a tool_use block: onToolCall sends a
\* status event and executes the tool; its result, or its exception, is
\* pushed as a tool result
ToolCall(outcome) ==
  /\ chat.pc = "tools"
  /\ chat.next <= Len(chat.assistant)
  /\ chat.assistant[chat.next].type = "tool_use"
  /\ chat' = [chat EXCEPT !.sent = sendEvent(@, "status"),
                          !.toolResults =
                             Append(@, toolResult(chat.assistant[chat.next], outcome)),
                          !.next = @ + 1]

\* the loop over contentBlocks at a block of another type
SkipBlock ==
  /\ chat.pc = "tools"
  /\ chat.next <= Len(chat.assistant)
  /\ chat.assistant[chat.next].type # "tool_use"
  /\ chat' = [chat EXCEPT !.next = @ + 1]

\* after the loop over contentBlocks: the results are pushed as one user
\* turn and the loop goes on, or there is none and it breaks
ToolsDone ==
  /\ chat.pc = "tools"
  /\ chat.next > Len(chat.assistant)
  /\ chat' = IF chat.toolResults # <<>>
             THEN [chat EXCEPT !.roles = Append(@, "user"),
                               !.user = chat.toolResults,
                               !.pc = "loop"]
             ELSE [chat EXCEPT !.pc = "exit"]

\* streamChat returns to the route
Return ==
  /\ chat.pc = "exit"
  /\ chat' = completed(chat)

NextChat ==
  /\ UNCHANGED engine
  /\ \/ \E message \in BOOLEAN : ChatRequest(message)
     \/ \E ok \in BOOLEAN : Initialize(ok)
     \/ \E resp \in Responses : ModelCall(resp)
     \/ LoopEnd
     \/ \E outcome \in {"ok", "throws"} : ToolCall(outcome)
     \/ SkipBlock
     \/ ToolsDone
     \/ Return
SpecChat == Init /\ [][NextChat]_vars

\* every await of the route and of the loop settles
SpecChatLive == SpecChat /\ WF_vars(NextChat)

(***************************************************************************)
(* Properties of connect and disconnect, under Spec.                       *)
(***************************************************************************)
\* an operation whose connect is under way
InFlight(p) == call[p].pc \in {"awaitSync", "resolved", "rejected"}

\* C1: two connect calls that are under way at the same time for the same
\* document identity await one session with one provider: the second call
\* joins the connection the first one started.
C1_ConcurrentConnectsShareSession ==
  \A p, q \in Callers :
    (InFlight(p) /\ InFlight(q) /\ call[p].id = call[q].id) => call[p].s = call[q].s

\* C2: an operation whose connect finds a session cached for its identity
\* works on that very session; no session, provider or view is created and
\* the cache is left as it was.
C2_CachedSessionReturned ==
  [][\A p \in Callers, id \in Identities, args \in SmallArgs :
       CallCached(p, id, args) =>
         /\ call'[p].res.session = connections[key(id)]
         /\ connections' = connections
         /\ nSessions' = nSessions
         /\ \A s \in Sessions : /\ sess'[s].id = sess[s].id
                                /\ sess'[s].provider = sess[s].provider
                                /\ sess'[s].view = sess[s].view]_vars

\* two operations were answered on the one session ever built
C2_SecondCallOnCachedSession ==
  /\ nSessions = 1
  /\ connections[key(IdC)] = 1
  /\ \A p \in Callers : /\ call[p].pc = "idle"
                         /\ call[p].res.op \notin {"none", "disconnect"}
                         /\ call[p].res.session = 1

\* the session the cache holds for an identity: the entry under the
\* identity's key, when it was built for that identity
CachedFor(id) ==
  IF connections[key(id)] # 0 /\ sess[connections[key(id)]].id = id
  THEN connections[key(id)] ELSE 0

\* C3: when the sync timer fires first, connect fails with 'Sync timeout'
\* and no session is cached for the identity, also after a late 'sync' of
\* the provider; the next connect for the identity builds a new session.
C3_TimeoutLeavesNothingCached ==
  [][
      /\ \A p \in Callers :
          Failed(p) => /\ call'[p].res.error = "Sync timeout"
                       /\ ~call'[p].res.success
                       /\ CachedFor(call[p].id) = 0
      /\ \A s \in Sessions :
          (sess[s].promise = "rejected" /\ sess'[s].synced) => CachedFor(sess[s].id)' = 0
      /\ \A p \in Callers, id \in Identities, args \in SmallArgs :
          (/\ \E s \in Sessions : sess[s].id = id /\ sess[s].promise = "rejected"
           /\ CallCached(p, id, args) \/ \E synced \in BOOLEAN : CallConnect(p, id, args, synced))
            => /\ nSessions' = nSessions + 1
               /\ call'[p].s = nSessions'
               /\ sess'[nSessions'].provider = "alive"]_vars

\* C4: a session whose connect failed with 'Sync timeout' is discarded: its
\* provider is torn down and the user record it put on the awareness is no
\* longer published.
C4_TimedOutSessionDiscarded ==
  \A p \in Callers :
    (call[p].pc = "idle" /\ call[p].res.error = "Sync timeout")
      => /\ sess[call[p].res.session].provider # "alive"
         /\ ~(sess[call[p].res.session].user /\ sess[call[p].res.session].provider = "alive")

\* C5: disconnect of an identity with a cached session destroys the view and
\* the provider of that session and removes the entry; disconnect of an
\* identity without one (never connected, or disconnected before) answers
\* without an error and changes no session, no entry and no document.
C5_DisconnectRemovesOrDoesNothing ==
  [][\A p \in Callers, id \in Identities :
       Disconnect(p, id) =>
         /\ call'[p].res.success /\ ~call'[p].res.threw
         /\ CachedFor(id)' = 0
         /\ IF CachedFor(id) # 0
            THEN /\ sess'[CachedFor(id)].view = "destroyed"
                 /\ sess'[CachedFor(id)].provider = "destroyed"
            ELSE UNCHANGED <<sess, connections, remote>>]_vars

Operations == {"positionCursor", "deleteBlock", "insertAtCursor", "replaceText"}

\* C6: no operation throws: whatever fails inside it (the connect with
\* 'Sync timeout', a selection without a block, a transformation that is
\* rejected) is answered as a result with success = false and a message.
C6_FailuresAreResults ==
  \A p \in Callers :
    (call[p].pc = "idle" /\ call[p].res.op \in Operations)
      => /\ ~call[p].res.threw
         /\ call[p].res.message # ""
         /\ call[p].res.error # "" => ~call[p].res.success

\* one caller was answered after a sync timeout, the other after deleteBlock
\* threw on a document without a block
C6_TimeoutAndThrowAnswered ==
  \E p, q \in Callers :
    /\ call[p].pc = "idle" /\ call[p].res.error = "Sync timeout"
    /\ call[q].pc = "idle" /\ call[q].res.op = "deleteBlock"
    /\ call[q].res.error = "There is no position before the top-level node"
    /\ ~call[p].res.success /\ ~call[q].res.success

(***************************************************************************)
(* Properties of the search and of replaceText, under SpecEdit.  What the  *)
(* search is meant to find is stated on the text itself: an occurrence of  *)
(* S is a block i and an offset k such that the Len(S) code units of the   *)
(* block's text from k on equal S up to case.  The search text has at      *)
(* least one code unit, as the routes require.                             *)
(***************************************************************************)
lowerEq(s, t) == toLowerCase(s) = toLowerCase(t)

OccursAt(doc, i, k, S) ==
  k + Len(S) <= Len(doc[i].text) /\ lowerEq(SubSeq(doc[i].text, k + 1, k + Len(S)), S)

Matches(doc, S) ==
  {m \in (1..Len(doc)) \X (0..contentSize(doc)) : OccursAt(doc, m[1], m[2], S)}

\* the first occurrence in document order
FirstMatch(doc, S) ==
  CHOOSE m \in Matches(doc, S) :
    \A n \in Matches(doc, S) : m[1] < n[1] \/ (m[1] = n[1] /\ m[2] <= n[2])

\* the position of the first code unit of an occurrence
matchFrom(doc, m) == blockStart(doc, m[1]) + 1 + m[2]

\* the document with the occurrence m of S replaced by R
Replaced(doc, m, S, R) ==
  [doc EXCEPT ![m[1]].text = Pre(doc[m[1]], m[2]) \o R \o Post(doc[m[1]], m[2] + Len(S))]

\* this step answers an operation of caller p: its connect returns the
\* cached session at once, or the await of the sync ends
Answered(p) ==
  /\ call'[p].pc = "idle" /\ call'[p].args.op \in Operations
  /\ \/ call[p].pc = "resolved"
     \/ call[p].pc = "idle" /\ nCalls' = nCalls + 1

\* the session the step works on, and its view before the step
Answering(p) == IF call[p].pc = "resolved" THEN call[p].s ELSE call'[p].res.session
ViewBefore(p) ==
  IF call[p].pc = "resolved"
  THEN view(sess[call[p].s], remote[call[p].id])
  ELSE sess[Answering(p)]

Searching(args) ==
  args.op \in {"positionCursor", "replaceText"} /\ args.searchText # <<>>

\* C7: when S occurs exactly once in the document, positionCursor(S)
\* answers success with from and to spanning the code units of that
\* occurrence, and the selection of the session is anchor = from, head = to.
UniqueMatchSelected(res, sn) ==
  (/\ res.op = "positionCursor" /\ res.text # <<>> /\ sn.view = "alive"
   /\ Cardinality(Matches(sn.doc, res.text)) = 1)
    => /\ res.success
       /\ res.from = matchFrom(sn.doc, FirstMatch(sn.doc, res.text))
       /\ res.to = res.from + Len(res.text)
       /\ sn.sel = TextSelection(res.from, res.to)

C7_UniqueMatchSelected ==
  \A p \in Callers :
    (call[p].pc = "idle" /\ call[p].res.session # 0)
      => UniqueMatchSelected(call[p].res, sess[call[p].res.session])

\* what positionCursor and replaceText are to do with the occurrence m of
\* the search text in the view sn: select it, or replace it by R
ActsOn(args, sn, m, res, after) ==
  IF args.op = "positionCursor"
  THEN /\ res.from = matchFrom(sn.doc, m)
       /\ res.to = res.from + Len(args.searchText)
       /\ after.sel = TextSelection(res.from, res.to)
       /\ after.doc = sn.doc
  ELSE after.doc = Replaced(sn.doc, m, args.searchText, args.replaceText)

\* C8: when the search text occurs more than once, positionCursor and
\* replaceText act on its first occurrence in document order, compared
\* without regard to case, and on no later one.
FirstOccurrence(args, sn, res, after) ==
  (res.success /\ Cardinality(Matches(sn.doc, args.searchText)) > 1)
    => ActsOn(args, sn, FirstMatch(sn.doc, args.searchText), res, after)

C8_FirstOccurrence ==
  [][\A p \in Callers :
       (Answered(p) /\ Searching(call'[p].args))
         => FirstOccurrence(call'[p].args, ViewBefore(p), call'[p].res,
                            sess'[Answering(p)])]_vars

\* C9: when the search text does not occur in the document, positionCursor
\* and replaceText answer success = false and leave the document, the
\* selection and the published cursor as they were: nothing is dispatched.
NotFoundChangesNothing(args, sn, res, after) ==
  Matches(sn.doc, args.searchText) = {}
    => /\ ~res.success
       /\ res.message = "not found"
       /\ after.doc = sn.doc
       /\ after.sel = sn.sel
       /\ after.cursor = sn.cursor

C9_NotFoundChangesNothing ==
  [][\A p \in Callers :
       (Answered(p) /\ Searching(call'[p].args))
         => /\ NotFoundChangesNothing(call'[p].args, ViewBefore(p), call'[p].res,
                                      sess'[Answering(p)])
            /\ Matches(ViewBefore(p).doc, call'[p].args.searchText) = {}
                 => remote' = remote]_vars

\* a search found nothing on a session whose selection and published cursor
\* an earlier positionCursor had set
C9_NotFoundAfterSelection ==
  \E p \in Callers :
    /\ call[p].pc = "idle"
    /\ call[p].res.op \in {"positionCursor", "replaceText"}
    /\ call[p].res.message = "not found" /\ call[p].res.text # <<>>
    /\ sess[call[p].res.session].view = "alive"
    /\ sess[call[p].res.session].sel.anchor # sess[call[p].res.session].sel.head
    /\ sess[call[p].res.session].cursor.state = "set"

\* C10: a replaceText that answers success has replaced the first matched
\* span, and nothing else, by the replacement: the text before and after
\* the span, every other block, the order and the number of the blocks are
\* as before.
ReplacesMatchedSpanOnly(args, sn, res, after) ==
  res.success
    => /\ Matches(sn.doc, args.searchText) # {}
       /\ after.doc = Replaced(sn.doc, FirstMatch(sn.doc, args.searchText),
                               args.searchText, args.replaceText)

C10_ReplacesMatchedSpanOnly ==
  [][\A p \in Callers :
       (Answered(p) /\ Searching(call'[p].args) /\ call'[p].args.op = "replaceText")
         => ReplacesMatchedSpanOnly(call'[p].args, ViewBefore(p), call'[p].res,
                                    sess'[Answering(p)])]_vars

\* C11: after a replaceText(S, R) that answered success, the positionCursor(R)
\* that the same caller issues next on the same session answers success.
C11_ReplacementIsFound ==
  [][\A p \in Callers :
       (/\ Answered(p) /\ call[p].pc = "idle"
        /\ call[p].args.op = "replaceText" /\ call[p].res.success
        /\ call'[p].args.op = "positionCursor"
        /\ call'[p].args.searchText = call[p].args.replaceText
        /\ call'[p].res.session = call[p].res.session)
         => call'[p].res.success]_vars

(***************************************************************************)
(* Properties of insertAtCursor and deleteBlock, under SpecEdit.           *)
(***************************************************************************)
\* C12: whatever the document and the selection (its end may lie inside the
\* text of a paragraph, where positionCursor leaves it), an insertAtCursor of
\* 'heading2' that answers success has added one heading of level 2 holding
\* exactly the text, and the document has exactly one block more.
OneHeadingAdded(args, sn, res, after) ==
  res.success
    => /\ Len(after.doc) = Len(sn.doc) + 1
       /\ \E i \in 1..Len(after.doc) :
            /\ after.doc[i] = Heading(2, args.text)
            /\ Before(after.doc, i) \o From(after.doc, i + 1) = sn.doc

C12_HeadingAddsOneBlock ==
  [][\A p \in Callers :
       (/\ Answered(p) /\ call'[p].args.op = "insertAtCursor"
        /\ call'[p].args.nodeType = Heading2)
         => OneHeadingAdded(call'[p].args, ViewBefore(p), call'[p].res,
                            sess'[Answering(p)])]_vars

(* The scenario of SpecScenario: positionCursor(X); replaceText(X, Y);      *)
(* insertAtCursor(T, 'heading2') on one session.                           *)
\* the call answered in this step is the n-th call, of operation op, and ran
\* on the first session
Stage(p, n, op) ==
  /\ Answered(p) /\ nCalls' = n
  /\ call'[p].args.op = op /\ call'[p].res.session = 1

HeadingAfterBlock(doc, i, text, after) ==
  after = Before(doc, i + 1) \o <<Heading(2, text)>> \o From(doc, i + 1)

\* C13: on a document in which X occurs in one paragraph, positionCursor(X)
\* succeeds, the replaceText(X, Y) after it succeeds and leaves the paragraphs
\* with X replaced by Y, and the insertAtCursor(T, 'heading2') after that
\* succeeds and leaves one block more: the paragraphs as they were and a
\* heading of level 2 with text T directly after the paragraph that holds Y.
C13_ScenarioEndsWithHeadingAfter ==
  [][\A p \in Callers :
       /\ Stage(p, 1, "positionCursor") => call'[p].res.success
       /\ Stage(p, 2, "replaceText")
            => /\ call'[p].res.success
               /\ sess'[1].doc = Replaced(sess[1].doc, FirstMatch(sess[1].doc, ScenarioFind),
                                          ScenarioFind, call'[p].args.replaceText)
       /\ (Stage(p, 3, "insertAtCursor") /\ call[p].res.success)
            => /\ call'[p].res.success
               /\ HeadingAfterBlock(sess[1].doc,
                                    FirstMatch(sess[1].doc, call[p].args.replaceText)[1],
                                    call'[p].args.text, sess'[1].doc)]_vars
\* C14: a deleteBlock that answers success on a document of more than one
\* block removes the block that held the selection anchor, and nothing else:
\* the other blocks keep their content and their order.
AnchorBlockRemoved(sn, res, after) ==
  (res.success /\ Len(sn.doc) > 1)
    => /\ resolve(sn.doc, sn.sel.anchor).depth = 1
       /\ after.doc = Before(sn.doc, resolve(sn.doc, sn.sel.anchor).idx)
                        \o From(sn.doc, resolve(sn.doc, sn.sel.anchor).idx + 1)
C14_DeleteRemovesAnchorBlock ==
  [][\A p \in Callers :
       (Answered(p) /\ call'[p].args.op = "deleteBlock")
         => AnchorBlockRemoved(ViewBefore(p), call'[p].res, sess'[Answering(p)])]_vars

\* a deleteBlock has answered success after a positionCursor moved the
\* selection into the second of two blocks: the first block is what is left
C14_SecondBlockDeleted ==
  /\ call["c1"].args.op = "deleteBlock" /\ call["c1"].res.success
  /\ nCalls = 2
  /\ Len(sess[1].doc) = 1 /\ sess[1].doc[1].text # <<>>
  /\ ~sess[1].sel.all /\ sess[1].sel.anchor = Len(sess[1].doc[1].text) + 1
  /\ sess[1].sel.anchor > 1
\* C15: when the selection lies in no block (the selection of the whole
\* document that a document without blocks gets), deleteBlock answers
\* success=false and the document, the selection, the published cursor and
\* the room's document are as before.
NoEnclosingBlock(sn) == sn.sel.all \/ resolve(sn.doc, sn.sel.anchor).depth = 0

NothingDeleted(sn, res, after) ==
  NoEnclosingBlock(sn)
    => /\ ~res.success
       /\ after.doc = sn.doc
       /\ after.sel = sn.sel
       /\ after.cursor = sn.cursor
C15_NoBlockNothingDeleted ==
  [][\A p \in Callers :
       (Answered(p) /\ call'[p].args.op = "deleteBlock")
         => /\ NothingDeleted(ViewBefore(p), call'[p].res, sess'[Answering(p)])
            /\ NoEnclosingBlock(ViewBefore(p)) => remote' = remote]_vars

\* deleteBlock has answered on a session whose selection is the whole
\* document, with the error of resolving the block
C15_DeleteOnWholeDocumentSelection ==
  \E p \in Callers :
    /\ call[p].pc = "idle" /\ call[p].args.op = "deleteBlock"
    /\ call[p].res.error = "There is no position before the top-level node"
    /\ sess[call[p].res.session].view = "alive"
    /\ sess[call[p].res.session].sel.all
\* the node types the interface names: 'paragraph', 'heading1' .. 'heading6'
Recognised(nodeType) ==
  \/ nodeType = <<"paragraph">>
  \/ /\ Len(nodeType) = 2 /\ nodeType[1] = "heading"
     /\ nodeType[2] \in {"1", "2", "3", "4", "5", "6"}

CountOf(doc, b) == Cardinality({i \in 1..Len(doc) : doc[i] = b})

\* C16: an insertAtCursor whose nodeType is none of 'paragraph' and
\* 'heading1' .. 'heading6' answers success and has added a paragraph that
\* holds the text.
ParagraphAdded(args, sn, res, after) ==
  /\ res.success
  /\ CountOf(after.doc, Paragraph(args.text)) > CountOf(sn.doc, Paragraph(args.text))
C16_UnknownTypeInsertsParagraph ==
  [][\A p \in Callers :
       (/\ Answered(p) /\ call'[p].args.op = "insertAtCursor"
        /\ call'[p].args.text # <<>> /\ ~Recognised(call'[p].args.nodeType))
         => ParagraphAdded(call'[p].args, ViewBefore(p), call'[p].res,
                           sess'[Answering(p)])]_vars
(* Properties of the sessions, under Spec. *)
\* what an operation reads and writes of a session
Model(sn) == <<sn.view, sn.doc, sn.sel, sn.cursor>>

\* C17: a step that changes a session's view, document, selection or
\* published cursor, and a step in which an operation is answered from a
\* session, is a step of a session whose sync promise is resolved: the
\* initial sync has completed before.
C17_NothingBeforeSync ==
  [][/\ \A s \in Sessions :
          Model(sess'[s]) # Model(sess[s]) => sess[s].promise = "resolved"
     /\ \A p \in Callers :
          /\ Connected(p) => sess[call[p].s].promise = "resolved"
          /\ \A id \in Identities, args \in SmallArgs :
               CallCached(p, id, args) => sess[connections[key(id)]].promise = "resolved"]_vars

\* an operation has changed the document of a synced session while another
\* caller awaits the sync of a session that has no view yet
C17_OneAnsweredOneAwaiting ==
  \E p, q \in Callers :
    /\ call[p].pc = "awaitSync" /\ sess[call[p].s].promise = "pending"
    /\ sess[call[p].s].view = "none"
    /\ call[q].pc = "idle" /\ call[q].res.success
    /\ call[q].res.op \in {"insertAtCursor", "replaceText", "deleteBlock"}
    /\ sess[call[q].res.session].promise = "resolved"
\* C18: different identities never resolve to the same cached session: the
\* session that connect finds cached for an identity was built for that
\* identity.
C18_CachedSessionIsOfIdentity ==
  [][\A p \in Callers, id \in Identities, args \in SmallArgs :
       CallCached(p, id, args) => sess[connections[key(id)]].id = id]_vars
\* what belongs to the identities other than id is as before
Frame(id) ==
  \A other \in Identities \ {id} :
    /\ connections'[key(other)] = connections[key(other)]
    /\ remote'[other] = remote[other]
    /\ \A s \in Sessions : sess[s].id = other => sess'[s] = sess[s]

\* C19: a connect that fails, an operation and a disconnect for an identity
\* leave the cache entry, the document, the selection and the published
\* awareness state of every other identity unchanged.
C19_OtherIdentitiesUntouched ==
  [][\A p \in Callers :
       /\ Failed(p) => Frame(call[p].id)
       /\ Connected(p) => Frame(call[p].id)
       /\ \A id \in Identities :
            /\ Disconnect(p, id) => Frame(id)
            /\ \A args \in SmallArgs : CallCached(p, id, args) => Frame(id)]_vars
(* Operations issued one after another on one identity, under SpecEdit. *)
\* what the body of the operation answered in this step leaves of the view
Applied(args, sn) == body(sn.doc, sn.sel, args)

Visible(args, sn, res, after) ==
  res.success
    => /\ after.doc = Applied(args, sn).doc
       /\ after.sel = Applied(args, sn).sel

\* C20: operations issued one after another on one identity act on one
\* session in the order of issue: an operation that answers success after
\* another did is answered from the same session, the session's view,
\* document and selection change in no step between two calls, and what an
\* operation that answers success has done to the document and the selection
\* is in the session when the call returns.
C20_AppliedInOrderAndVisible ==
  [][/\ \A p \in Callers :
          Answered(p)
            => /\ Visible(call'[p].args, ViewBefore(p), call'[p].res, sess'[Answering(p)])
               /\ (/\ call'[p].res.success /\ call[p].res.success
                   /\ call[p].res.op \in Operations)
                     => call'[p].res.session = call[p].res.session
     /\ \A s \in Sessions :
          Model(sess'[s]) # Model(sess[s])
            => \E p \in Callers :
                 \/ Answered(p) /\ Answering(p) = s
                 \/ call'[p].args.op = "disconnect" /\ call'[p].res.session = s]_vars

\* two insertAtCursor calls were answered one after the other on the first
\* session: the heading of the first call, then the heading of the second
C20_TwoHeadingsInOrder ==
  /\ nCalls = 2 /\ call["c1"].pc = "idle"
  /\ call["c1"].res.success /\ call["c1"].res.session = 1
  /\ call["c1"].args.op = "insertAtCursor" /\ call["c1"].args.nodeType = <<"heading", "7">>
  /\ \E i, j \in 1..Len(sess[1].doc) :
       /\ i < j
       /\ sess[1].doc[i] = Heading(2, <<"a">>)
       /\ sess[1].doc[j] = Heading(7, <<"a">>)
(* Properties of the cursor plugin and of the awareness, under SpecEdit and *)
(* Spec.                                                                   *)
\* C21: a view update whose selection is the selection of the whole document
\* publishes no cursor: the cursor field of the awareness is as it was
\* before the operation.
C21_WholeDocumentSelectionNotPublished ==
  [][\A p \in Callers :
       (Answered(p) /\ sess'[Answering(p)].sel.all)
         => sess'[Answering(p)].cursor = ViewBefore(p).cursor]_vars

\* an insertAtCursor has dispatched on a session whose selection is the
\* whole document: the document has a block, no cursor is published
C21_DispatchedOnWholeDocumentSelection ==
  \E p \in Callers :
    /\ call[p].pc = "idle" /\ call[p].args.op = "insertAtCursor" /\ call[p].res.success
    /\ sess[call[p].res.session].sel.all
    /\ sess[call[p].res.session].doc # <<>>
    /\ sess[call[p].res.session].cursor.state = "unset"
\* the markers of the ends of the selection of a session
Markers(sn) == <<resolve(sn.doc, sn.sel.anchor), resolve(sn.doc, sn.sel.head)>>

WrittenOnlyWhenNew(sn, after) ==
  /\ after.cursor.writes \in {sn.cursor.writes, sn.cursor.writes + 1}
  /\ after.cursor.writes = sn.cursor.writes => after.cursor = sn.cursor
  /\ after.cursor.writes # sn.cursor.writes
       => /\ ~after.sel.all
          /\ sn.cursor.state # "set" \/ <<sn.cursor.anchor, sn.cursor.head>> # Markers(after)
          /\ <<after.cursor.anchor, after.cursor.head>> = Markers(after)

\* the positionCursor answered in this step repeats the caller's last call,
\* which answered success from the same session
Repeated(p) ==
  Answered(p) /\ call'[p].args.op = "positionCursor" /\ call'[p].again

\* C22: an operation writes the cursor field of the awareness at most once,
\* and only when no cursor is published or a marker of the new selection
\* differs from the published one; a positionCursor that repeats the last
\* call on the unchanged document answers the same position and writes
\* nothing.
C22_CursorWrittenOnlyWhenItDiffers ==
  [][\A p \in Callers :
       /\ Answered(p) => WrittenOnlyWhenNew(ViewBefore(p), sess'[Answering(p)])
       /\ Repeated(p)
            => /\ call'[p].res = call[p].res
               /\ sess'[Answering(p)].cursor = sess[Answering(p)].cursor]_vars

\* positionCursor was answered twice with the same text from one session,
\* and the cursor field was written once
C22_RepeatedPositionCursor ==
  /\ call["c1"].pc = "idle" /\ call["c1"].again
  /\ call["c1"].args.op = "positionCursor" /\ call["c1"].res.success
  /\ nSessions = 1 /\ sess[1].cursor.state = "set" /\ sess[1].cursor.writes = 1
  /\ sess[1].sel = TextSelection(call["c1"].res.from, call["c1"].res.to)
  /\ sess[1].doc = remote[IdC]
\* C23: a disconnect that finds a session destroys its view, which publishes
\* a null cursor on the awareness, and then its provider: the null cursor is
\* written while the provider is alive.
C23_NullCursorBeforeProviderDestroyed ==
  [][\A p \in Callers, id \in Identities :
       (Disconnect(p, id) /\ connections[key(id)] # 0)
         => /\ sess[connections[key(id)]].provider = "alive"
            /\ sess'[connections[key(id)]].view = "destroyed"
            /\ sess'[connections[key(id)]].provider = "destroyed"
            /\ sess'[connections[key(id)]].cursor.state = "null"
            /\ sess'[connections[key(id)]].cursor.writes
                 = sess[connections[key(id)]].cursor.writes + 1]_vars

\* a session that had published a cursor was disconnected
C23_DisconnectedAfterCursor ==
  \E s \in Sessions, p \in Callers :
    /\ call[p].pc = "idle" /\ call[p].args.op = "disconnect" /\ call[p].res.session = s
    /\ sess[s].provider = "destroyed" /\ sess[s].view = "destroyed"
    /\ sess[s].cursor.state = "null" /\ sess[s].cursor.writes = 2
\* C24: the awareness of every cached session carries the user record of
\* the agent.
C24_CachedSessionHasUser ==
  \A k \in Keys :
    connections[k] # 0
      => sess[connections[k]].user /\ sess[connections[k]].provider = "alive"

\* a session is cached and an operation was answered from it
C24_SessionCachedAndUsed ==
  \E k \in Keys, p \in Callers :
    /\ connections[k] # 0 /\ sess[connections[k]].user
    /\ call[p].pc = "idle" /\ call[p].res.success
    /\ call[p].res.session = connections[k]
(* Termination of connect, under SpecLive. *)
\* C25: every connect completes: a caller whose operation awaits the sync,
\* or whose connect has settled, is answered.
C25_ConnectCompletes ==
  \A p \in Callers : InFlight(p) ~> (call[p].pc = "idle")

\* an operation was answered 'Sync timeout' by a session that never synced
C25_TimedOutNeverSynced ==
  \E p \in Callers :
    /\ call[p].pc = "idle" /\ call[p].res.error = "Sync timeout"
    /\ ~sess[call[p].res.session].synced
    /\ sess[call[p].res.session].promise = "rejected"
(* Properties of the schema, under SpecEdit. *)
\* C26: an operation on a session whose document has a block leaves a
\* document that has a block; so every sequence of operations does.
C26_DocumentKeepsABlock ==
  [][\A p \in Callers :
       (Answered(p) /\ Len(ViewBefore(p).doc) >= 1)
         => Len(sess'[Answering(p)].doc) >= 1]_vars

\* deleteBlock has answered success twice in a row on one session, the
\* second time on a document of one block: an empty paragraph is left
C26_OnlyBlockDeleted ==
  \E p \in Callers :
    /\ call[p].pc = "idle" /\ call[p].again
    /\ call[p].args.op = "deleteBlock" /\ call[p].res.success
    /\ sess[call[p].res.session].doc = <<Paragraph(<<>>)>>
\* the document has one block and the selection is inside it
InOnlyBlock(sn) ==
  Len(sn.doc) = 1 /\ ~sn.sel.all /\ resolve(sn.doc, sn.sel.anchor).depth = 1

\* the block's span is deleted: the paragraph the schema fills in is left
OnlyBlockDeleted(sn, res, after) ==
  InOnlyBlock(sn)
    => /\ res.success
       /\ after.doc = <<Paragraph(<<>>)>>

\* C27: deleteBlock on a document of one block, the selection inside the
\* block, is not rejected: the deletion of the block is dispatched and the
\* call answers success.
C27_LastBlockDeleteNotRejected ==
  [][\A p \in Callers :
       /\ (Connected(p) /\ call[p].args.op = "deleteBlock")
            => /\ OnlyBlockDeleted(view(sess[call[p].s], remote[call[p].id]),
                                   call'[p].res, sess'[call[p].s])
               /\ InOnlyBlock(view(sess[call[p].s], remote[call[p].id]))
                    => remote'[call[p].id] = <<Paragraph(<<>>)>>
       /\ \A id \in Identities :
            CallCached(p, id, deleteBlockArgs)
              => OnlyBlockDeleted(sess[connections[key(id)]], call'[p].res,
                                  sess'[connections[key(id)]])]_vars

\* the first call of a run was a deleteBlock on the room of one paragraph,
\* and it answered success
C27_OnlyParagraphDeleted ==
  \E p \in Callers, s \in Sessions :
    /\ nCalls = 1 /\ call[p].pc = "idle"
    /\ call[p].args.op = "deleteBlock" /\ call[p].res.success /\ call[p].res.session = s
    /\ sess[s].id = IdC /\ Len(Served(IdC)) = 1
    /\ sess[s].doc = <<Paragraph(<<>>)>> /\ remote[IdC] = <<Paragraph(<<>>)>>
\* C28: every heading of the document of a session has a level in 1..6.
C28_HeadingLevelsInRange ==
  \A s \in Sessions :
    \A i \in 1..Len(sess[s].doc) :
      sess[s].doc[i].type = "heading" => sess[s].doc[i].level \in 1..6
(* The place of an insertion, under SpecEdit. *)
\* the code unit at a position of the document, "|" at a block boundary
unitAt(doc, pos, r) ==
  IF r.depth = 1 /\ r.off < Len(doc[r.idx].text) THEN doc[r.idx].text[r.off + 1] ELSE "|"

\* what lies between the ends of a selection
Selected(doc, sel) ==
  [k \in 1..(selTo(sel) - selFrom(sel)) |->
     unitAt(doc, selFrom(sel) + k - 1, resolve(doc, selFrom(sel) + k - 1))]

IndexOf(doc, b) == CHOOSE i \in 1..Len(doc) : doc[i] = b

\* the node of the second of two insertAtCursor calls follows the node of
\* the first (each node being the only block of the document equal to it)
SecondAfterFirst(first, second, sn, after) ==
  (/\ first # second
   /\ CountOf(sn.doc, first) = 1 /\ CountOf(sn.doc, second) = 0
   /\ CountOf(after.doc, first) = 1 /\ CountOf(after.doc, second) = 1)
    => IndexOf(after.doc, first) < IndexOf(after.doc, second)

\* C29: an insertAtCursor that answers success leaves what the selection
\* spanned before the call unchanged, position by position (the node is
\* inserted at the end of the selection, the range is not replaced); and the
\* node of an insertAtCursor that follows another one on the same session
\* comes after the node of the first in the document.
C29_InsertedAtEndInOrder ==
  [][\A p \in Callers :
       (Answered(p) /\ call'[p].args.op = "insertAtCursor" /\ call'[p].res.success)
         => /\ Selected(sess'[Answering(p)].doc, ViewBefore(p).sel)
                 = Selected(ViewBefore(p).doc, ViewBefore(p).sel)
            /\ (/\ call[p].pc = "idle" /\ call[p].args.op = "insertAtCursor"
                /\ call[p].res.success /\ call[p].res.session = call'[p].res.session)
                 => SecondAfterFirst(newNode(call[p].args.text, call[p].args.nodeType),
                                     newNode(call'[p].args.text, call'[p].args.nodeType),
                                     sess[Answering(p)], sess'[Answering(p)])]_vars
(* The life of a cache entry, under Spec. *)
\* C30: a cached session is removed or replaced only by a disconnect for the
\* identity it was built for; and the session an operation is answered from
\* is never a destroyed one: after a disconnect the next operation builds a
\* new session.
C30_CachedUntilOwnDisconnect ==
  [][/\ \A k \in Keys :
          (connections[k] # 0 /\ connections'[k] # connections[k])
            => \E p \in Callers : Disconnect(p, sess[connections[k]].id)
     /\ \A k \in Keys :
          connections'[k] # 0 => sess'[connections'[k]].provider = "alive"
     /\ \A p \in Callers :
          Connected(p) => sess[call[p].s].view = "none"]_vars
(* Disconnect and the operations under way, under Spec. *)
\* C31: once a disconnect for an identity has returned, a connect for that
\* identity that was issued before it and still awaited its sync leaves no
\* session cached: the identity has no cached session until a connect issued
\* after the disconnect completes.
C31_NothingCachedByEarlierConnect ==
  [][\A q \in Callers :
       (Connected(q) /\ call[q].overtaken)
         => connections'[key(call[q].id)] = 0]_vars
\* C32: no operation acts on a session whose view a disconnect has
\* destroyed: the document and the selection of such a session never change,
\* the session a connect completes has no view yet, and the session an
\* operation finds cached has a live view.  Under SpecTeardown.
C32_NoDispatchAfterDestroy ==
  [][/\ \A s \in Sessions :
          (sess'[s].doc # sess[s].doc \/ sess'[s].sel # sess[s].sel)
            => sess[s].view # "destroyed"
     /\ \A p \in Callers :
          /\ Connected(p)
               => sess[call[p].s].view = "none" /\ sess[call[p].s].provider = "alive"
          /\ \A id \in Identities, args \in TeardownArgs :
               CallCached(p, id, args) => sess[connections[key(id)]].view = "alive"]_vars

\* a disconnect destroyed a session, and an operation was answered with
\* success from a session built after it
C32_OperationAfterDisconnect ==
  \E p, q \in Callers, s, t \in Sessions :
    /\ call[q].pc = "idle" /\ call[q].args.op = "disconnect" /\ call[q].res.session = s
    /\ sess[s].view = "destroyed"
    /\ call[p].pc = "idle" /\ call[p].res.success /\ call[p].res.session = t
    /\ s < t /\ sess[t].view = "alive"
\* the operation answered in this step dispatched a transaction
DispatchedBy(p) ==
  body(ViewBefore(p).doc, ViewBefore(p).sel, call'[p].args).dispatched

\* C33: after an operation has dispatched on a session whose selection is
\* then not the selection of the whole document, a cursor is published on
\* the awareness and its anchor and head are the markers of the ends of the
\* selection in the document after the dispatch.  Under SpecEdit.
C33_PublishedCursorIsSelection ==
  [][\A p \in Callers :
       (Answered(p) /\ DispatchedBy(p) /\ ~sess'[Answering(p)].sel.all)
         => /\ sess'[Answering(p)].cursor.state = "set"
            /\ <<sess'[Answering(p)].cursor.anchor, sess'[Answering(p)].cursor.head>>
                 = Markers(sess'[Answering(p)])]_vars

\* two operations have each moved the selection of the first session and
\* written the cursor: a positionCursor, then an insertAtCursor
C33_CursorWrittenTwice ==
  /\ call["c1"].pc = "idle" /\ call["c1"].res.success /\ call["c1"].res.session = 1
  /\ call["c1"].args.op = "insertAtCursor"
  /\ ~sess[1].sel.all /\ sess[1].view = "alive"
  /\ sess[1].cursor.state = "set" /\ sess[1].cursor.writes = 2
  /\ <<sess[1].cursor.anchor, sess[1].cursor.head>> = Markers(sess[1])
\* C34: the anchor and the head of the selection of every session that has
\* a view are offsets of the session's current document, between 0 and the
\* size of its content.  Under SpecEdit.
C34_SelectionWithinDocument ==
  \A s \in Sessions :
    sess[s].view # "none"
      => InRange(sess[s].doc, sess[s].sel.anchor) /\ InRange(sess[s].doc, sess[s].sel.head)

\* a deleteBlock has removed the last of two blocks after another call: the
\* selection, which was in the removed block, is at the end of the block
\* that is left
C34_SelectionMappedAfterDelete ==
  /\ nCalls = 2 /\ call["c1"].pc = "idle"
  /\ call["c1"].args.op = "deleteBlock" /\ call["c1"].res.success
  /\ call["c1"].res.session = 1
  /\ Len(sess[1].doc) = 1 /\ sess[1].doc[1].text # <<>>
  /\ ~sess[1].sel.all
  /\ sess[1].sel.head = contentSize(sess[1].doc) - 1
(* The span of a search, under SpecEdit. *)
\* the positions from and to lie in the text of one block of the document
InOneBlock(doc, from, to) ==
  /\ InRange(doc, from) /\ InRange(doc, to)
  /\ resolve(doc, from).depth = 1 /\ resolve(doc, to).depth = 1
  /\ resolve(doc, from).idx = resolve(doc, to).idx

\* the search of the operation answered in this step, in the document the
\* operation found
Found(p) == findText(ViewBefore(p).doc, call'[p].args.searchText)

\* C35: the span a positionCursor or a replaceText finds lies in the text of
\* one block; a text that occurs in no single block is answered as not
\* found; and a replaceText leaves the number of blocks as it was.
C35_SpanInsideOneBlock ==
  [][\A p \in Callers :
       (Answered(p) /\ Searching(call'[p].args))
         => /\ Found(p).found
                 => InOneBlock(ViewBefore(p).doc, Found(p).from, Found(p).to)
            /\ Matches(ViewBefore(p).doc, call'[p].args.searchText) = {}
                 => ~call'[p].res.success
            /\ call'[p].args.op = "replaceText"
                 => Len(sess'[Answering(p)].doc) = Len(ViewBefore(p).doc)]_vars
(* The routes, under SpecRoutes. *)
\* a parameter the route requires is left out or empty: docUrl and
\* collabUrl for every route, text for position-cursor and
\* insert-at-cursor, find and replace for replace-text
Incomplete(route, req) ==
  \/ \E f \in {"docUrl", "collabUrl"} : ~req[f].given \/ req[f].value = ""
  \/ \E f \in CASE route \in {"position-cursor", "insert-at-cursor"} -> {"text"}
                [] route = "replace-text" -> {"find", "replace"}
                [] OTHER -> {} :
       ~req[f].given \/ req[f].value = <<>>

\* C36: a request to a route of /api/operations with a required parameter
\* left out or empty is answered 400 with success = false, and the engine
\* is not called: no session is created, no connection is cached or
\* removed, no document changes.
C36_IncompleteRequestRejected ==
  [][\A route \in Routes : \A req \in Bodies(route) :
       (Request("c1", route, req) /\ Incomplete(route, req))
         => /\ call'["c1"].status = 400
            /\ ~call'["c1"].res.success
            /\ UNCHANGED <<connections, sess, nSessions, remote>>]_vars

\* a request was rejected after an operation had built and cached a
\* session, which is as the operation left it
C36_RejectedWithSessionCached ==
  /\ nCalls = 2 /\ call["c1"].pc = "idle" /\ call["c1"].status = 400
  /\ connections[key(IdC)] = 1
  /\ sess[1].view = "alive" /\ sess[1].provider = "alive"
  /\ sess[1].doc = remote[IdC]
(* The chat route and streamChat, under SpecChat and SpecChatLive. *)
\* C37: streamChat calls the model at most 10 times for a user message.  A
\* call after the first is made only when the response before it stopped
\* with tool_use and its tools gave a result; the tools of a response are
\* called only when it stopped with tool_use; and streamChat ends, the
\* awaited calls settling.
C37_AtMostTenModelCalls ==
  /\ [](chat.iteration <= 10)
  /\ [](chat.pc = "tools" => chat.stopReason = "tool_use")
  /\ [][chat'.iteration # chat.iteration
          => /\ chat'.iteration = chat.iteration + 1
             /\ chat.iteration < 10
             /\ \/ chat.iteration = 0
                \/ chat.stopReason = "tool_use" /\ chat.toolResults # <<>>]_vars
  /\ (chat.pc = "loop") ~> (chat.pc = "done")

\* the loop was ended by its bound: the tenth response stopped with
\* tool_use, its tool gave a result, and the request was completed
C37_StoppedByTheBound ==
  /\ chat.iteration = 10 /\ chat.pc = "done"
  /\ chat.stopReason = "tool_use" /\ chat.toolResults # <<>>
  /\ chat.roles[Len(chat.roles)] = "user"
  /\ chat.sent.tail = <<"complete">>

\* the tool_use blocks of a content, in order
RECURSIVE toolUses(_)
toolUses(blocks) ==
  IF blocks = <<>> THEN <<>>
  ELSE IF Head(blocks).type = "tool_use"
       THEN <<Head(blocks)>> \o toolUses(Tail(blocks))
       ELSE toolUses(Tail(blocks))

\* one result for each tool_use block, in the order of the blocks, with
\* the block's id
Answers(results, blocks) ==
  /\ Len(results) = Len(toolUses(blocks))
  /\ \A k \in 1..Len(results) : results[k].tool_use_id = toolUses(blocks)[k].id

\* C38: when the loop over the blocks of a response that stopped with
\* tool_use is done, the results collected are one for each tool_use
\* block, in block order and with its id, and they are pushed as one user
\* turn; the next model call is made with that turn as the last one; a
\* tool call that throws gives a result with is_error and the loop over the
\* blocks goes on.
C38_OneResultPerToolUse ==
  [][/\ (chat.pc = "tools" /\ chat'.pc # "tools")
          => /\ Answers(chat.toolResults, chat.assistant)
             /\ chat.toolResults # <<>>
                  => /\ chat'.pc = "loop"
                     /\ chat'.roles = Append(chat.roles, "user")
                     /\ chat'.user = chat.toolResults
     /\ (chat'.iteration # chat.iteration /\ chat.iteration > 0)
          => /\ chat.roles[Len(chat.roles)] = "user"
             /\ chat.roles[Len(chat.roles) - 1] = "assistant"
             /\ Answers(chat.user, chat.assistant)
     /\ \A outcome \in {"ok", "throws"} :
          ToolCall(outcome)
            => /\ chat'.pc = "tools" /\ ~chat'.ended
               /\ chat'.toolResults =
                    Append(chat.toolResults,
                           [tool_use_id |-> chat.assistant[chat.next].id,
                            is_error |-> (outcome = "throws")])]_vars

\* the first of two tool calls of a response threw, the second gave its
\* result, and both results were pushed as the last turn
C38_SecondToolCalledAfterThrow ==
  /\ chat.pc = "loop" /\ chat.iteration = 1
  /\ Len(toolUses(chat.assistant)) = 2
  /\ chat.user = <<[tool_use_id |-> 1, is_error |-> TRUE],
                   [tool_use_id |-> 2, is_error |-> FALSE]>>
  /\ chat.roles = <<"user", "assistant", "user">>

\* C39: a chat request that has started its event stream sends no terminal
\* event before it ends the response, has sent exactly one, 'complete' or
\* 'error', as its last event when it has ended the response, sends
\* nothing afterwards, and does end the response, the awaited calls
\* settling.
C39_OneTerminalEvent ==
  /\ [](~chat.ended => chat.sent.tail = <<>>)
  /\ [](chat.ended => chat.sent.tail \in {<<"complete">>, <<"error">>})
  /\ [][chat.ended => chat' = chat]_vars
  /\ (chat.pc = "init") ~> chat.ended

\* a stream broke after token and status events: the request ended with
\* 'error' as its only terminal event
C39_ErrorAfterTokens ==
  /\ chat.ended /\ chat.sent.tail = <<"error">>
  /\ chat.sent.tokens > 0 /\ chat.sent.statuses > 0
  /\ chat.iteration > 1
====
